---- MODULE Spec2Model ----
(***************************************************************************)
(* A model of the Scout music-search service: the persistent Playwright    *)
(* session manager and its search routine (src/scraper.py) and the         *)
(* FastAPI request handler and lifespan around it (src/main.py).           *)
(*                                                                         *)
(* Every request or direct call is an asyncio coroutine.  A coroutine runs *)
(* without interruption from one await to the next, so each action below   *)
(* is "the awaited call completes, then the code runs up to the next       *)
(* await".  The control state of a coroutine (co[p].pc) names the await it *)
(* is suspended at.                                                        *)
(*                                                                         *)
(* Handles.  Each pass through start() that reaches line 66 takes a fresh  *)
(* serial number; the driver, the browser and the context created by that  *)
(* pass all carry it (the browser is launched from the driver assigned     *)
(* just before, the context from the browser assigned just before).  0 is  *)
(* Python's None.                                                          *)
(*                                                                         *)
(* Optional values (Python's Optional[str]) are sequences of length 0      *)
(* (None) or 1 (the value); a string is a sequence of one-character        *)
(* strings.                                                                *)
(***************************************************************************)
EXTENDS Integers, Sequences, FiniteSets, TLC

\* ----------------------------------------------------------------- bounds
\* Concurrent coroutines (requests or direct callers).
NProcs == 2
\* Operations (requests, direct start()/stop() calls) begun in one behaviour
\* of the concurrent specification.
ConcOps == 2
\* Operations begun in one behaviour of the sequential specification.
MaxOps == 3
\* Rows the result-row locator matches in those two specifications.
PageRows == 2
\* Rows the result-row locator matches in the specification of extraction.
MaxRows == 5
\* Rows the result-row locator matches in the specification of two searches
\* on a running session.
PairRows == 3

\* ------------------------------------------------------ program constants
\* for _ in range(2): the maximum number of "load more" rounds.
MaxLoadMore == 2
\* for idx in range(1, total): the index of the first row that is read.
FirstIdx == 1

Procs == 1..NProcs
Ids == 1..MaxOps
\* The storage states of a context: 0 is a fresh context, 1 holds the cookies
\* the target site hands out.
CookieVals == {0, 1}

\* ---------------------------------------------------------------- strings
None == <<>>
Some(v) == <<v>>

RECURSIVE LStrip(_)
LStrip(s) == IF s # <<>> /\ Head(s) = " " THEN LStrip(Tail(s)) ELSE s

RECURSIVE RStrip(_)
RStrip(s) ==
  IF s # <<>> /\ s[Len(s)] = " " THEN RStrip(SubSeq(s, 1, Len(s) - 1)) ELSE s

\* str.strip()
Strip(s) == RStrip(LStrip(s))

\* Python truthiness of an Optional[str]: None and "" are falsy.
Truthy(o) == o # None /\ o[1] # <<>>

\* (x or "").strip()
OrEmptyStrip(o) == IF Truthy(o) THEN Strip(o[1]) ELSE <<>>

\* ------------------------------------------------------------- page stubs
\* A row of the page: the text of its a[2] and a[3] elements and the
\* attributes of its nested anchor; an element that is not in the row is None.
Anchor(d, h, s) == [duration |-> d, href |-> h, stream |-> s]

FullRow ==
  [a2 |-> Some(<<" ", "a", " ">>), a3 |-> Some(<<"t">>),
   link |-> Some(Anchor(Some(<<"7">>), Some(<<"d">>), Some(<<"s">>)))]
BlankRow ==
  [a2 |-> Some(<<>>), a3 |-> Some(<<>>), link |-> Some(Anchor(None, None, None))]
NoDurRow ==
  [a2 |-> Some(<<"a">>), a3 |-> Some(<<"t">>),
   link |-> Some(Anchor(None, Some(<<"d">>), Some(<<"s">>)))]
WsRow ==
  [a2 |-> Some(<<" ">>), a3 |-> Some(<<>>), link |-> Some(Anchor(None, None, None))]
NoLinkRow ==
  [a2 |-> Some(<<"a">>), a3 |-> Some(<<"t">>), link |-> None]

RowKinds == {FullRow, BlankRow, NoDurRow, WsRow, NoLinkRow}

RowSeqs(n) == UNION {[1..k -> RowKinds] : k \in 0..n}

\* The rows of the pages in the specification of two searches.
PairKinds == {FullRow, NoDurRow, BlankRow}
PairRowSeqs(n) == UNION {[1..k -> PairKinds] : k \in 0..n}

\* ------------------------------------------------------------- extraction
\* The five reads of one row (lines 143-149).  A locator read of an element
\* that is not there waits for it and raises TimeoutError.
RowReadable(row) == row.a2 # None /\ row.a3 # None /\ row.link # None

\* if not any([artist, title, duration, download, stream]): continue
RowKept(row) ==
  \/ Truthy(row.a2)
  \/ Truthy(row.a3)
  \/ Truthy(row.link[1].duration)
  \/ Truthy(row.link[1].href)
  \/ Truthy(row.link[1].stream)

\* MakeRecord numbering from the length of the list, without the "+ 1".
MutMakeRecord(results, row) ==
  [id |-> Len(results),
   artist |-> OrEmptyStrip(row.a2),
   title |-> OrEmptyStrip(row.a3),
   duration |-> row.link[1].duration,
   download |-> OrEmptyStrip(row.link[1].href),
   stream |-> OrEmptyStrip(row.link[1].stream)]

\* The dict appended for a kept row (lines 155-164).
MakeRecord(results, row) ==
  [id |-> Len(results) + 1,
   artist |-> OrEmptyStrip(row.a2),
   title |-> OrEmptyStrip(row.a3),
   duration |-> row.link[1].duration,
   download |-> OrEmptyStrip(row.link[1].href),
   stream |-> OrEmptyStrip(row.link[1].stream)]

\* The loop "for idx in range(1, total)" from 0-based index idx on, with
\* the records gathered so far: the list it ends with, or a raised timeout.
RECURSIVE ExtractFrom(_, _, _)
ExtractFrom(rows, idx, results) ==
  IF idx >= Len(rows) THEN [raised |-> FALSE, results |-> results]
  ELSE LET row == rows[idx + 1] IN
       IF ~RowReadable(row) THEN [raised |-> TRUE, results |-> results]
       ELSE IF ~RowKept(row) THEN ExtractFrom(rows, idx + 1, results)
       ELSE ExtractFrom(rows, idx + 1, Append(results, MakeRecord(results, row)))

ExtractAll(rows) == ExtractFrom(rows, FirstIdx, <<>>)

\* ------------------------------------------------------------------ state
VARIABLES
  baseUrl,     \* self.base_url is set (BASE_URL in the environment)
  playwright,  \* self.playwright: the serial of the driver, 0 for None
  browser,     \* self.browser
  context,     \* self.context
  nextId,      \* serials handed out so far
  openDrv,     \* drivers started and not stopped
  openBrw,     \* browser processes launched and not closed
  openCtx,     \* contexts created and not closed
  ctxState,    \* the storage state (cookies) each context holds
  blob,        \* cookies.json: None when the file does not exist
  pages,       \* per context, pages opened and not closed by page.close()
  phase,       \* the application: "boot", "up" (serving) or "down"
  client,      \* State.client is set (and open)
  collection,  \* State.collection is not None
  docs,        \* the stored search documents
  nextDoc,     \* document ids handed out so far
  ops,         \* operations begun so far
  co           \* the coroutine frame of each caller

mgrVars == <<playwright, browser, context>>
envVars == <<nextId, openDrv, openBrw, openCtx, ctxState, blob, pages>>
appVars == <<baseUrl, phase, client, collection, docs, nextDoc>>
vars == <<mgrVars, envVars, appVars, ops, co>>

\* The frame of a caller that has not called anything yet.
IdleFrame ==
  [pc |-> "idle",      \* the await the coroutine is suspended at
   kind |-> "none",    \* "http" (GET /search), "start" or "stop" (direct calls)
   id |-> 0,           \* the serial this pass through start() took
   useBlob |-> FALSE,  \* context_args has "storage_state"
   page |-> 0,         \* the context new_page() was called on
   pctx |-> 0,         \* the context storage_state() was called on
   i |-> 0,            \* rounds of the "load more" loop completed
   clicks |-> 0,       \* "load more" activations of this search
   hidden |-> FALSE,   \* "load more" has been observed not visible
   late |-> FALSE,     \* "load more" was activated after that
   opened |-> FALSE,   \* new_page() has returned a page
   closed |-> FALSE,   \* page.close() has completed
   counted |-> FALSE,  \* the rows have been counted and read
   idx |-> 0,          \* idx of the row loop, while the rows are read one by one
   rows |-> <<>>,      \* the rows the locator matched
   results |-> <<>>,   \* results
   pfail |-> FALSE,    \* storage_state() raised (and was swallowed)
   closes |-> 0,       \* close()/stop() calls this stop() has made
   tmo |-> "none",     \* the step whose timeout expired
   ret |-> "none",     \* the manager call "returned" or "raised"
   exc |-> "none",     \* what was raised
   status |-> 0,       \* the HTTP status of the response
   count |-> 0]        \* the count of the response

Init ==
  /\ baseUrl \in BOOLEAN
  /\ playwright = 0 /\ browser = 0 /\ context = 0
  /\ nextId = 0
  /\ openDrv = {} /\ openBrw = {} /\ openCtx = {}
  /\ ctxState = [c \in Ids |-> 0]
  /\ blob \in {None} \cup {Some(v) : v \in CookieVals}
  /\ pages = [c \in Ids |-> 0]
  /\ phase = "boot"
  /\ client = FALSE /\ collection = FALSE
  /\ docs = {} /\ nextDoc = 0
  /\ ops = 0
  /\ co = [p \in Procs |-> IdleFrame]

\* ------------------------------------------------------------- exceptions
\* The frame once the operation is over: its locals are gone, what the
\* caller got is kept until the caller begins its next operation.  The
\* response carries results only when it is a 200.
Outcome(f) ==
  [IdleFrame EXCEPT !.kind = f.kind, !.ret = f.ret, !.exc = f.exc,
                    !.tmo = f.tmo, !.status = f.status, !.count = f.count,
                    !.counted = f.counted, !.pfail = f.pfail,
                    !.closes = f.closes,
                    !.results = IF f.status = 200 THEN f.results ELSE <<>>]

\* An exception e leaves the manager call.  In a /search request the handler
\* turns it into HTTP 500 (main.py 148-152); a direct caller gets it.
Raise(f, e) ==
  Outcome([f EXCEPT !.ret = "raised", !.exc = e,
                    !.status = IF f.kind = "http" THEN 500 ELSE 0])

\* A TimeoutError raised by the step named step.
RaiseTimeout(f, step) == Raise([f EXCEPT !.tmo = step], "timeout")

\* The page of the frame still exists (its context has not been closed).
PageAlive(f) == f.page \in openCtx

\* What an awaited page operation with a timeout can do.
PageOutcomes(f) == IF PageAlive(f) THEN {"ok", "timeout"} ELSE {"closed"}

\* ------------------------------------------------------- request handler
\* Track.model_validate(x): duration must be an int or a string of digits.
IsInt(s) == s # <<>> /\ \A k \in 1..Len(s) : s[k] \in {"0", "7"}
TrackValid(x) == x.duration # None /\ IsInt(x.duration[1])

\* main.py 154-173, entered when search_tracks_async has returned f.results.
ReturnToHandler(f) ==
  LET g == [f EXCEPT !.ret = "returned"] IN
  IF f.kind # "http" THEN Outcome(g)
  ELSE IF \E k \in 1..Len(f.results) : ~TrackValid(f.results[k])
       THEN Outcome([g EXCEPT !.exc = "validation", !.status = 500])
  ELSE IF collection
       THEN [g EXCEPT !.pc = "aw_insert", !.count = Len(f.results), !.rows = <<>>]
  ELSE Outcome([g EXCEPT !.status = 200, !.count = Len(f.results)])

\* ------------------------------------------------------- start() and after
\* The code that follows "await self.start()": a direct caller returns, a
\* search calls self.context.new_page() (line 109) on the context ctx.
AfterStart(f, ctx) ==
  IF f.kind = "start" THEN Outcome([f EXCEPT !.ret = "returned"])
  ELSE IF ctx = 0 THEN Raise(f, "attribute")
  ELSE [f EXCEPT !.pc = "aw_page", !.page = ctx]

\* StartEntry without "if self.browser: return".
MutStartEntry(f) == [f EXCEPT !.pc = "aw_pw"]

\* start(), lines 63-66.
StartEntry(f) ==
  IF browser # 0 THEN AfterStart(f, context) ELSE [f EXCEPT !.pc = "aw_pw"]

\* SearchEntry without the check of base_url.
MutSearchEntry(f) == StartEntry(f)

\* search_tracks(), lines 104-107.
SearchEntry(f) ==
  IF ~baseUrl THEN Raise(f, "config") ELSE StartEntry(f)

\* Caller p can begin an operation: the application is serving and p is not
\* in one.  Callers are numbered in the order of their first operation.
CanBegin(p, maxOps) ==
  /\ phase = "up" /\ co[p].pc = "idle" /\ ops < maxOps
  /\ \A q \in Procs : q < p => co[q].kind # "none"

\* GET /search?track=...: main.py 143-149, then the scraper up to its first
\* await.
BeginSearch(p, maxOps) ==
  /\ CanBegin(p, maxOps)
  /\ \E track \in {<<"a">>, <<" ">>, <<" ", "a">>} :
       LET f == [IdleFrame EXCEPT !.kind = "http"] IN
       co' = [co EXCEPT ![p] =
                IF Strip(track) = <<>>
                THEN Outcome([f EXCEPT !.exc = "empty_query", !.status = 400])
                ELSE SearchEntry(f)]
  /\ ops' = ops + 1
  /\ UNCHANGED <<mgrVars, envVars, appVars>>

\* A direct call of start().
BeginStart(p, maxOps) ==
  /\ CanBegin(p, maxOps)
  /\ co' = [co EXCEPT ![p] = StartEntry([IdleFrame EXCEPT !.kind = "start"])]
  /\ ops' = ops + 1
  /\ UNCHANGED <<mgrVars, envVars, appVars>>

\* async_playwright().start() completes (line 66); launch is called.
PwStarted(p) ==
  /\ co[p].pc = "aw_pw"
  /\ \E r \in {"ok", "fail"} :
       IF r = "ok"
       THEN /\ nextId' = nextId + 1
            /\ playwright' = nextId + 1
            /\ openDrv' = openDrv \cup {nextId + 1}
            /\ co' = [co EXCEPT ![p] = [@ EXCEPT !.pc = "aw_launch", !.id = nextId + 1]]
       ELSE /\ co' = [co EXCEPT ![p] = Raise(@, "driver")]
            /\ UNCHANGED <<nextId, playwright, openDrv>>
  /\ UNCHANGED <<browser, context, openBrw, openCtx, ctxState, blob, pages, appVars, ops>>

\* chromium.launch() completes (lines 68-75); lines 77-87 run up to the
\* call of new_context.
Launched(p) ==
  /\ co[p].pc = "aw_launch"
  /\ \E r \in (IF co[p].id \in openDrv THEN {"ok", "fail"} ELSE {"fail"}) :
       IF r = "ok"
       THEN /\ browser' = co[p].id
            /\ openBrw' = openBrw \cup {co[p].id}
            /\ co' = [co EXCEPT ![p] = [@ EXCEPT !.pc = "aw_ctx", !.useBlob = (blob # None)]]
       ELSE /\ co' = [co EXCEPT ![p] = Raise(@, "launch")]
            /\ UNCHANGED <<browser, openBrw>>
  /\ UNCHANGED <<playwright, context, nextId, openDrv, openCtx, ctxState, blob, pages, appVars, ops>>

\* CtxCreated with the storage_state argument ignored: the context is fresh.
MutCtxCreated(p) ==
  /\ co[p].pc = "aw_ctx"
  /\ \E r \in (IF co[p].id \in openBrw THEN {"ok", "fail"} ELSE {"fail"}) :
       IF r = "ok"
       THEN /\ context' = co[p].id
            /\ openCtx' = openCtx \cup {co[p].id}
            /\ ctxState' = [ctxState EXCEPT ![co[p].id] = 0]
            /\ co' = [co EXCEPT ![p] = AfterStart(@, co[p].id)]
       ELSE /\ co' = [co EXCEPT ![p] = Raise(@, "context")]
            /\ UNCHANGED <<context, openCtx, ctxState>>
  /\ UNCHANGED <<playwright, browser, nextId, openDrv, openBrw, blob, pages, appVars, ops>>

\* browser.new_context() completes (line 87); start() returns.
CtxCreated(p) ==
  /\ co[p].pc = "aw_ctx"
  /\ \E r \in (IF co[p].id \in openBrw THEN {"ok", "fail"} ELSE {"fail"}) :
       IF r = "ok"
       THEN /\ context' = co[p].id
            /\ openCtx' = openCtx \cup {co[p].id}
            /\ ctxState' = [ctxState EXCEPT ![co[p].id] =
                              IF co[p].useBlob /\ blob # None THEN blob[1] ELSE 0]
            /\ co' = [co EXCEPT ![p] = AfterStart(@, co[p].id)]
       ELSE /\ co' = [co EXCEPT ![p] = Raise(@, "context")]
            /\ UNCHANGED <<context, openCtx, ctxState>>
  /\ UNCHANGED <<playwright, browser, nextId, openDrv, openBrw, blob, pages, appVars, ops>>

\* ---------------------------------------------------------- search_tracks
\* context.new_page() completes (line 109); page.goto is called (line 114).
PageOpened(p) ==
  /\ co[p].pc = "aw_page"
  /\ IF PageAlive(co[p])
     THEN /\ pages' = [pages EXCEPT ![co[p].page] = @ + 1]
          /\ co' = [co EXCEPT ![p] = [@ EXCEPT !.pc = "aw_goto", !.opened = TRUE]]
     ELSE /\ co' = [co EXCEPT ![p] = Raise(@, "closed")]
          /\ UNCHANGED pages
  /\ UNCHANGED <<mgrVars, nextId, openDrv, openBrw, openCtx, ctxState, blob, appVars, ops>>

\* page.goto() completes (line 114): the site may have set cookies.
Goto(p) ==
  /\ co[p].pc = "aw_goto"
  /\ \E r \in PageOutcomes(co[p]), v \in CookieVals :
       CASE r = "ok" ->
              /\ ctxState' = [ctxState EXCEPT ![co[p].page] = v]
              /\ co' = [co EXCEPT ![p] = [@ EXCEPT !.pc = "aw_fill"]]
         [] r = "timeout" ->
              /\ co' = [co EXCEPT ![p] = RaiseTimeout(@, "goto")]
              /\ UNCHANGED ctxState
         [] OTHER ->
              /\ co' = [co EXCEPT ![p] = Raise(@, "closed")]
              /\ UNCHANGED ctxState
  /\ UNCHANGED <<mgrVars, nextId, openDrv, openBrw, openCtx, blob, pages, appVars, ops>>

\* The awaits of lines 116-149 touch nothing but the coroutine's own page.
\* Each has an operator giving the frames it can lead to.

\* PageStepFrame with the timeout handled like the timeout of the wait for
\* the first row: the page is closed and the empty list returned.
MutPageStepFrame(f, r, step, next) ==
  CASE r = "ok" -> [f EXCEPT !.pc = next]
    [] r = "timeout" -> [f EXCEPT !.pc = "aw_close0", !.tmo = step]
    [] OTHER -> Raise(f, "closed")

\* The frame after an awaited page operation: on to the await next, or the
\* operation's exception.
PageStepFrame(f, r, step, next) ==
  CASE r = "ok" -> [f EXCEPT !.pc = next]
    [] r = "timeout" -> RaiseTimeout(f, step)
    [] OTHER -> Raise(f, "closed")

\* q.fill(query) completes (line 116).
FillSucc(f) == {PageStepFrame(f, r, "fill", "aw_press") : r \in PageOutcomes(f)}

\* q.press("Enter") completes (line 117); the wait for the first row begins.
PressSucc(f) == {PageStepFrame(f, r, "press", "aw_wait") : r \in PageOutcomes(f)}

\* WaitFrame without the except clause: the timeout is raised.
MutWaitFrame(f, r) ==
  CASE r = "ok" -> [f EXCEPT !.pc = "aw_vis0"]
    [] r = "timeout" -> RaiseTimeout(f, "wait")
    [] OTHER -> Raise(f, "closed")

\* The handler of the wait for the first row (lines 122-126): a row became
\* visible, or TimeoutError is caught and page.close() is called.
WaitFrame(f, r) ==
  CASE r = "ok" -> [f EXCEPT !.pc = "aw_vis0"]
    [] r = "timeout" -> [f EXCEPT !.pc = "aw_close0", !.tmo = "wait"]
    [] OTHER -> Raise(f, "closed")

\* items.first.wait_for(state="visible") completes (line 123).
WaitSucc(f) == {WaitFrame(f, r) : r \in PageOutcomes(f)}

\* What is_visible() can answer: it does not wait.
VisOutcomes(f) == IF PageAlive(f) THEN {"visible", "hidden"} ELSE {"closed"}

\* if await loadmore.is_visible() (line 130): enter the loop or skip it.
LoadMoreVisibleFrame(f, r) ==
  CASE r = "visible" -> [f EXCEPT !.pc = "aw_vis", !.i = 0]
    [] r = "hidden" -> [f EXCEPT !.pc = "aw_count", !.hidden = TRUE]
    [] OTHER -> Raise(f, "closed")

LoadMoreVisibleSucc(f) == {LoadMoreVisibleFrame(f, r) : r \in VisOutcomes(f)}

\* if not await loadmore.is_visible(): break (lines 132-133).
LoopVisibleFrame(f, r) ==
  CASE r = "visible" -> [f EXCEPT !.pc = "aw_scroll"]
    [] r = "hidden" -> [f EXCEPT !.pc = "aw_count", !.hidden = TRUE]
    [] OTHER -> Raise(f, "closed")

LoopVisibleSucc(f) == {LoopVisibleFrame(f, r) : r \in VisOutcomes(f)}

\* loadmore.scroll_into_view_if_needed() completes (line 134).
ScrollSucc(f) == {PageStepFrame(f, r, "scroll", "aw_click") : r \in PageOutcomes(f)}

\* loadmore.click() completes (line 135): one more activation.
ClickFrame(f, r) ==
  IF r = "ok"
  THEN [f EXCEPT !.pc = "aw_settle", !.clicks = @ + 1, !.late = f.hidden]
  ELSE PageStepFrame(f, r, "click", "aw_settle")

ClickSucc(f) == {ClickFrame(f, r) : r \in PageOutcomes(f)}

\* LoopNext with one round more than range(2) gives.
MutLoopNext(f) ==
  IF f.i + 1 < MaxLoadMore + 1
  THEN [f EXCEPT !.i = @ + 1, !.pc = "aw_vis"]
  ELSE [f EXCEPT !.i = @ + 1, !.pc = "aw_count"]

\* The end of one round of "for _ in range(2)": another round or the count.
LoopNext(f) ==
  IF f.i + 1 < MaxLoadMore
  THEN [f EXCEPT !.i = @ + 1, !.pc = "aw_vis"]
  ELSE [f EXCEPT !.i = @ + 1, !.pc = "aw_count"]

\* page.wait_for_timeout(2000) completes (line 136).
SettleSucc(f) == {IF PageAlive(f) THEN LoopNext(f) ELSE Raise(f, "closed")}

\* The code after the extraction loop: self.context.storage_state(...) is
\* called (line 167); with self.context None the AttributeError is swallowed
\* (lines 168-169) and page.close() is called (line 171).
PersistEntry(f) ==
  IF context = 0 THEN [f EXCEPT !.pc = "aw_close", !.pfail = TRUE]
  ELSE [f EXCEPT !.pc = "aw_persist", !.pctx = context]

\* Lines 138-167 on a page whose locator matches rows.  The frame keeps the
\* rows it has read until its next step, and forgets the locals of the
\* pagination loop.
ExtractFrame(f, rows) ==
  LET x == ExtractAll(rows)
      g == [f EXCEPT !.rows = rows, !.counted = TRUE,
                     !.i = 0, !.clicks = 0, !.hidden = FALSE, !.late = FALSE]
  IN IF x.raised THEN RaiseTimeout(g, "row")
     ELSE PersistEntry([g EXCEPT !.results = x.results])

\* items.count() completes (line 139) and the rows are read (lines 142-164).
ExtractSucc(f, maxRows) ==
  IF PageAlive(f) THEN {ExtractFrame(f, rows) : rows \in RowSeqs(maxRows)}
  ELSE {Raise(f, "closed")}

\* The same lines row by row, for the specification of two searches on a
\* running session.  items.count() completes (line 139): the loop begins at
\* its first index, or there is no row for it to read.
CountFrame(f, rows) ==
  LET g == [f EXCEPT !.rows = rows, !.counted = TRUE, !.idx = FirstIdx,
                     !.i = 0, !.clicks = 0, !.hidden = FALSE, !.late = FALSE]
  IN IF FirstIdx >= Len(rows) THEN PersistEntry([g EXCEPT !.idx = 0])
     ELSE [g EXCEPT !.pc = "aw_row"]

\* The reads of the row at idx complete (lines 143-164): one iteration of
\* the loop, then the next row or the code after the loop.
ReadRowFrame(f) ==
  LET x == ExtractFrom(SubSeq(f.rows, 1, f.idx + 1), f.idx, f.results)
      g == [f EXCEPT !.results = x.results]
  IN IF x.raised THEN RaiseTimeout(f, "row")
     ELSE IF f.idx + 1 >= Len(f.rows) THEN PersistEntry([g EXCEPT !.idx = 0])
     ELSE [g EXCEPT !.idx = @ + 1]

\* The steps of coroutine p that change nothing but its frame.
Fill(p) ==
  /\ co[p].pc = "aw_fill"
  /\ \E g \in FillSucc(co[p]) : co' = [co EXCEPT ![p] = g]
  /\ UNCHANGED <<mgrVars, envVars, appVars, ops>>

Press(p) ==
  /\ co[p].pc = "aw_press"
  /\ \E g \in PressSucc(co[p]) : co' = [co EXCEPT ![p] = g]
  /\ UNCHANGED <<mgrVars, envVars, appVars, ops>>

Wait(p) ==
  /\ co[p].pc = "aw_wait"
  /\ \E g \in WaitSucc(co[p]) : co' = [co EXCEPT ![p] = g]
  /\ UNCHANGED <<mgrVars, envVars, appVars, ops>>

LoadMoreVisible(p) ==
  /\ co[p].pc = "aw_vis0"
  /\ \E g \in LoadMoreVisibleSucc(co[p]) : co' = [co EXCEPT ![p] = g]
  /\ UNCHANGED <<mgrVars, envVars, appVars, ops>>

LoopVisible(p) ==
  /\ co[p].pc = "aw_vis"
  /\ \E g \in LoopVisibleSucc(co[p]) : co' = [co EXCEPT ![p] = g]
  /\ UNCHANGED <<mgrVars, envVars, appVars, ops>>

Scroll(p) ==
  /\ co[p].pc = "aw_scroll"
  /\ \E g \in ScrollSucc(co[p]) : co' = [co EXCEPT ![p] = g]
  /\ UNCHANGED <<mgrVars, envVars, appVars, ops>>

Click(p) ==
  /\ co[p].pc = "aw_click"
  /\ \E g \in ClickSucc(co[p]) : co' = [co EXCEPT ![p] = g]
  /\ UNCHANGED <<mgrVars, envVars, appVars, ops>>

Settle(p) ==
  /\ co[p].pc = "aw_settle"
  /\ \E g \in SettleSucc(co[p]) : co' = [co EXCEPT ![p] = g]
  /\ UNCHANGED <<mgrVars, envVars, appVars, ops>>

Extract(p, maxRows) ==
  /\ co[p].pc = "aw_count"
  /\ \E g \in ExtractSucc(co[p], maxRows) : co' = [co EXCEPT ![p] = g]
  /\ UNCHANGED <<mgrVars, envVars, appVars, ops>>

CountRows(p, maxRows) ==
  /\ co[p].pc = "aw_count"
  /\ IF PageAlive(co[p])
     THEN \E rows \in PairRowSeqs(maxRows) : co' = [co EXCEPT ![p] = CountFrame(@, rows)]
     ELSE co' = [co EXCEPT ![p] = Raise(@, "closed")]
  /\ UNCHANGED <<mgrVars, envVars, appVars, ops>>

ReadRow(p) ==
  /\ co[p].pc = "aw_row"
  /\ co' = [co EXCEPT ![p] = IF PageAlive(@) THEN ReadRowFrame(@) ELSE Raise(@, "closed")]
  /\ UNCHANGED <<mgrVars, envVars, appVars, ops>>

\* The same awaits taken together, for the specification of concurrent
\* callers: from the call of fill to the first await after the rows are
\* read (or to the exception, or to the zero-result close).  No other
\* coroutine can tell the steps in between apart.  The frame keeps the
\* results and not the rows they were read from.
LocalPcs ==
  {"aw_fill", "aw_press", "aw_wait", "aw_vis0", "aw_vis", "aw_scroll",
   "aw_click", "aw_settle", "aw_count"}

LocalSucc(f, maxRows) ==
  CASE f.pc = "aw_fill" -> FillSucc(f)
    [] f.pc = "aw_press" -> PressSucc(f)
    [] f.pc = "aw_wait" -> WaitSucc(f)
    [] f.pc = "aw_vis0" -> LoadMoreVisibleSucc(f)
    [] f.pc = "aw_vis" -> LoopVisibleSucc(f)
    [] f.pc = "aw_scroll" -> ScrollSucc(f)
    [] f.pc = "aw_click" -> ClickSucc(f)
    [] f.pc = "aw_settle" -> SettleSucc(f)
    [] f.pc = "aw_count" -> ExtractSucc(f, maxRows)
    [] OTHER -> {f}

RECURSIVE LocalClosure(_, _)
LocalClosure(F, maxRows) ==
  IF \A f \in F : f.pc \notin LocalPcs THEN F
  ELSE LocalClosure(UNION {LocalSucc(f, maxRows) : f \in F}, maxRows)

\* The awaits from the call of fill up to the count of the rows, taken
\* together.
RECURSIVE ApproachClosure(_)
ApproachClosure(F) ==
  IF \A f \in F : f.pc \notin LocalPcs \ {"aw_count"} THEN F
  ELSE ApproachClosure(UNION {IF f.pc = "aw_count" THEN {f} ELSE LocalSucc(f, 0) : f \in F})

Approach(p) ==
  /\ co[p].pc = "aw_fill"
  /\ \E g \in ApproachClosure({co[p]}) : co' = [co EXCEPT ![p] = g]
  /\ UNCHANGED <<mgrVars, envVars, appVars, ops>>

Interact(p, maxRows) ==
  /\ co[p].pc = "aw_fill"
  /\ \E g \in LocalClosure({co[p]}, maxRows) :
       co' = [co EXCEPT ![p] = [g EXCEPT !.rows = <<>>]]
  /\ UNCHANGED <<mgrVars, envVars, appVars, ops>>

\* page.close() completes on the zero-result path (line 125); results is
\* returned (line 126).
CloseEmpty(p) ==
  /\ co[p].pc = "aw_close0"
  /\ pages' = [pages EXCEPT ![co[p].page] = @ - 1]
  /\ co' = [co EXCEPT ![p] = ReturnToHandler([@ EXCEPT !.closed = TRUE])]
  /\ UNCHANGED <<mgrVars, nextId, openDrv, openBrw, openCtx, ctxState, blob, appVars, ops>>

\* Persist without the write: the call returns and the file is left alone.
MutPersist(p) ==
  /\ co[p].pc = "aw_persist"
  /\ co' = [co EXCEPT ![p] = [@ EXCEPT !.pc = "aw_close", !.rows = <<>>]]
  /\ UNCHANGED <<mgrVars, envVars, appVars, ops>>

\* Persist without the except clause: a failure of the write is raised.
MutPersistRaise(p) ==
  /\ co[p].pc = "aw_persist"
  /\ \E r \in (IF co[p].pctx \in openCtx THEN {"ok", "fail"} ELSE {"fail"}) :
       IF r = "ok"
       THEN /\ blob' = Some(ctxState[co[p].pctx])
            /\ co' = [co EXCEPT ![p] = [@ EXCEPT !.pc = "aw_close", !.rows = <<>>]]
       ELSE /\ co' = [co EXCEPT ![p] = Raise([@ EXCEPT !.pfail = TRUE], "persist")]
            /\ UNCHANGED blob
  /\ UNCHANGED <<mgrVars, nextId, openDrv, openBrw, openCtx, ctxState, pages, appVars, ops>>

\* context.storage_state(path=...) completes (lines 166-169): the file is
\* rewritten, or the exception is swallowed; page.close() is called.
Persist(p) ==
  /\ co[p].pc = "aw_persist"
  /\ \E r \in (IF co[p].pctx \in openCtx THEN {"ok", "fail"} ELSE {"fail"}) :
       IF r = "ok"
       THEN /\ blob' = Some(ctxState[co[p].pctx])
            /\ co' = [co EXCEPT ![p] = [@ EXCEPT !.pc = "aw_close", !.rows = <<>>]]
       ELSE /\ co' = [co EXCEPT ![p] =
                        [@ EXCEPT !.pc = "aw_close", !.rows = <<>>, !.pfail = TRUE]]
            /\ UNCHANGED blob
  /\ UNCHANGED <<mgrVars, nextId, openDrv, openBrw, openCtx, ctxState, pages, appVars, ops>>

\* ClosePage closing every page of the context.
MutClosePage(p) ==
  /\ co[p].pc = "aw_close"
  /\ pages' = [pages EXCEPT ![co[p].page] = 0]
  /\ co' = [co EXCEPT ![p] = ReturnToHandler([@ EXCEPT !.closed = TRUE])]
  /\ UNCHANGED <<mgrVars, nextId, openDrv, openBrw, openCtx, ctxState, blob, appVars, ops>>

\* page.close() completes (line 171); results is returned (line 172).
ClosePage(p) ==
  /\ co[p].pc = "aw_close"
  /\ pages' = [pages EXCEPT ![co[p].page] = @ - 1]
  /\ co' = [co EXCEPT ![p] = ReturnToHandler([@ EXCEPT !.closed = TRUE])]
  /\ UNCHANGED <<mgrVars, nextId, openDrv, openBrw, openCtx, ctxState, blob, appVars, ops>>

\* Insert rewriting the count of the documents already stored.
MutInsert(p) ==
  /\ co[p].pc = "aw_insert"
  /\ docs' = {[d EXCEPT !.count = 0] : d \in docs}
               \cup {[id |-> nextDoc + 1, count |-> co[p].count]}
  /\ nextDoc' = nextDoc + 1
  /\ co' = [co EXCEPT ![p] = Outcome([@ EXCEPT !.status = 200])]
  /\ UNCHANGED <<mgrVars, envVars, baseUrl, phase, client, collection, ops>>

\* State.collection.insert_one(doc) completes (main.py 165); the response
\* is returned (main.py 168-173).
Insert(p) ==
  /\ co[p].pc = "aw_insert"
  /\ docs' = docs \cup {[id |-> nextDoc + 1, count |-> co[p].count]}
  /\ nextDoc' = nextDoc + 1
  /\ co' = [co EXCEPT ![p] = Outcome([@ EXCEPT !.status = 200])]
  /\ UNCHANGED <<mgrVars, envVars, baseUrl, phase, client, collection, ops>>

\* DELETE /delete (main.py 224-230): 503 without a collection, otherwise
\* delete_many({}) removes every document.
DeleteAll(p, maxOps) ==
  /\ CanBegin(p, maxOps)
  /\ LET f == [IdleFrame EXCEPT !.kind = "delete_all"] IN
       IF ~collection
       THEN /\ co' = [co EXCEPT ![p] = Outcome([f EXCEPT !.status = 503])]
            /\ UNCHANGED docs
       ELSE /\ co' = [co EXCEPT ![p] = Outcome([f EXCEPT !.status = 200])]
            /\ docs' = {}
  /\ ops' = ops + 1
  /\ UNCHANGED <<mgrVars, envVars, baseUrl, phase, client, collection, nextDoc>>

\* DELETE /delete/{search_id} (main.py 233-247).  sid 0 is a string that is
\* not an ObjectId; the others are the ids documents can have.
DeleteById(p, maxOps) ==
  /\ CanBegin(p, maxOps)
  /\ \E sid \in {0} \cup Ids :
       LET f == [IdleFrame EXCEPT !.kind = "delete_by_id"]
           hit == {d \in docs : d.id = sid}
       IN /\ co' = [co EXCEPT ![p] =
                      Outcome([f EXCEPT !.status =
                                 IF ~collection THEN 503
                                 ELSE IF sid = 0 THEN 400
                                 ELSE IF hit = {} THEN 404
                                 ELSE 200])]
          /\ docs' = IF collection THEN docs \ hit ELSE docs
  /\ ops' = ops + 1
  /\ UNCHANGED <<mgrVars, envVars, baseUrl, phase, client, collection, nextDoc>>

\* ------------------------------------------------------------------ stop()
\* StopTarget without the close of the context (lines 91-93).
MutStopTarget(stage) ==
  IF stage <= 2 /\ browser # 0 THEN 2
  ELSE IF playwright # 0 THEN 3
  ELSE 4

\* The close that stop() calls next when it resumes at the check of the
\* context (1), of the browser (2) or of the driver (3); 4: it returns.
\* close() takes effect when it is called; the field is set to None when the
\* await completes.
StopTarget(stage) ==
  IF stage <= 1 /\ context # 0 THEN 1
  ELSE IF stage <= 2 /\ browser # 0 THEN 2
  ELSE IF playwright # 0 THEN 3
  ELSE 4

\* The call made at target t (lines 92, 95, 98).  Closing a browser closes
\* its contexts, stopping a driver ends its browser.
StopCall(p, f, t) ==
  /\ openCtx' = openCtx \ (CASE t = 1 -> {context}
                             [] t = 2 -> {browser}
                             [] t = 3 -> {playwright}
                             [] OTHER -> {})
  /\ openBrw' = openBrw \ (CASE t = 2 -> {browser}
                             [] t = 3 -> {playwright}
                             [] OTHER -> {})
  /\ openDrv' = openDrv \ (IF t = 3 THEN {playwright} ELSE {})
  /\ co' = [co EXCEPT ![p] =
              CASE t = 1 -> [f EXCEPT !.pc = "aw_sctx", !.closes = @ + 1]
                [] t = 2 -> [f EXCEPT !.pc = "aw_sbrw", !.closes = @ + 1]
                [] t = 3 -> [f EXCEPT !.pc = "aw_spw", !.closes = @ + 1]
                [] OTHER -> Outcome([f EXCEPT !.ret = "returned"])]

\* A direct call of stop() (lines 90-99), up to its first await.
BeginStop(p, maxOps) ==
  /\ CanBegin(p, maxOps)
  /\ StopCall(p, [IdleFrame EXCEPT !.kind = "stop"], StopTarget(1))
  /\ ops' = ops + 1
  /\ UNCHANGED <<mgrVars, nextId, ctxState, blob, pages, appVars>>

\* context.close() completes; self.context = None (lines 92-93).
StopCtxDone(p) ==
  /\ co[p].pc = "aw_sctx"
  /\ context' = 0
  /\ StopCall(p, co[p], StopTarget(2))
  /\ UNCHANGED <<playwright, browser, nextId, ctxState, blob, pages, appVars, ops>>

\* browser.close() completes; self.browser = None (lines 95-96).
StopBrwDone(p) ==
  /\ co[p].pc = "aw_sbrw"
  /\ browser' = 0
  /\ StopCall(p, co[p], StopTarget(3))
  /\ UNCHANGED <<playwright, context, nextId, ctxState, blob, pages, appVars, ops>>

\* playwright.stop() completes; self.playwright = None (lines 98-99).
StopPwDone(p) ==
  /\ co[p].pc = "aw_spw"
  /\ playwright' = 0
  /\ StopCall(p, co[p], 4)
  /\ UNCHANGED <<browser, context, nextId, ctxState, blob, pages, appVars, ops>>

\* --------------------------------------------------------------- lifespan
\* lifespan() up to its yield (main.py 83-103): with MONGO_URL set and the
\* ping answered the collection is available, otherwise it is None.
Startup ==
  /\ phase = "boot"
  /\ phase' = "up"
  /\ \E ok \in BOOLEAN : client' = ok /\ collection' = ok
  /\ UNCHANGED <<mgrVars, envVars, baseUrl, docs, nextDoc, ops, co>>

\* lifespan() after its yield (main.py 105-108), once the requests in
\* flight have been answered: the Mongo client is closed, and nothing else.
Shutdown ==
  /\ phase = "up"
  /\ \A p \in Procs : co[p].pc = "idle"
  /\ phase' = "down"
  /\ client' = FALSE
  /\ UNCHANGED <<mgrVars, envVars, baseUrl, collection, docs, nextDoc, ops, co>>

\* ------------------------------------------------------------------ specs
\* The steps of coroutine p that involve the manager, the browser's shared
\* state, the file or the database.
Shared(p, maxOps) ==
  \/ BeginSearch(p, maxOps) \/ BeginStart(p, maxOps) \/ BeginStop(p, maxOps)
  \/ PwStarted(p) \/ Launched(p) \/ CtxCreated(p)
  \/ PageOpened(p) \/ Goto(p) \/ CloseEmpty(p)
  \/ Persist(p) \/ ClosePage(p) \/ Insert(p)
  \/ StopCtxDone(p) \/ StopBrwDone(p) \/ StopPwDone(p)

\* Concurrent callers on the one manager of the process.
Next ==
  \/ Startup
  \/ Shutdown
  \/ \E p \in Procs : Shared(p, ConcOps) \/ Interact(p, PageRows)

Spec == Init /\ [][Next]_vars

\* One caller at a time, await by await.
SeqStep(p) ==
  \/ Shared(p, MaxOps)
  \/ DeleteAll(p, MaxOps) \/ DeleteById(p, MaxOps)
  \/ Fill(p) \/ Press(p) \/ Wait(p)
  \/ LoadMoreVisible(p) \/ LoopVisible(p) \/ Scroll(p) \/ Click(p) \/ Settle(p)
  \/ Extract(p, PageRows)

SeqNext == Startup \/ Shutdown \/ SeqStep(1)

SeqSpec == Init /\ [][SeqNext]_vars

\* Extraction on pages of up to MaxRows rows.  It begins where the first
\* search of the process, which has started the session, has found a row
\* visible and the "load more" control not visible, and awaits the count of
\* the rows (line 139).
ExtractInit ==
  /\ baseUrl = TRUE
  /\ playwright = 1 /\ browser = 1 /\ context = 1
  /\ nextId = 1
  /\ openDrv = {1} /\ openBrw = {1} /\ openCtx = {1}
  /\ ctxState \in {[c \in Ids |-> IF c = 1 THEN v ELSE 0] : v \in CookieVals}
  /\ blob = None
  /\ pages = [c \in Ids |-> IF c = 1 THEN 1 ELSE 0]
  /\ phase = "up"
  /\ collection \in BOOLEAN /\ client = collection
  /\ docs = {} /\ nextDoc = 0
  /\ ops = 1
  /\ co = [p \in Procs |->
             IF p = 1
             THEN [IdleFrame EXCEPT !.pc = "aw_count", !.kind = "http", !.id = 1,
                                    !.page = 1, !.opened = TRUE, !.hidden = TRUE]
             ELSE IdleFrame]

ExtractNext == Extract(1, MaxRows) \/ Persist(1) \/ ClosePage(1) \/ Insert(1)

ExtractSpec == ExtractInit /\ [][ExtractNext]_vars

\* Two searches on a running session, the rows read one by one.  It begins
\* where a session has been started and two requests have come in: start()
\* has returned to both (line 107) and both have called new_page (line 109).
PairProcs == {1, 2}

PairInit ==
  /\ baseUrl = TRUE
  /\ playwright = 1 /\ browser = 1 /\ context = 1
  /\ nextId = 1
  /\ openDrv = {1} /\ openBrw = {1} /\ openCtx = {1}
  /\ ctxState = [c \in Ids |-> 0]
  /\ blob = None
  /\ pages = [c \in Ids |-> 0]
  /\ phase = "up"
  /\ collection \in BOOLEAN /\ client = collection
  /\ docs = {} /\ nextDoc = 0
  /\ ops = Cardinality(PairProcs)
  /\ co = [p \in Procs |->
             IF p \in PairProcs
             THEN [IdleFrame EXCEPT !.kind = "http", !.pc = "aw_page", !.page = 1]
             ELSE IdleFrame]

PairStep(p) ==
  \/ PageOpened(p) \/ Goto(p) \/ Approach(p) \/ CloseEmpty(p)
  \/ CountRows(p, PairRows) \/ ReadRow(p)
  \/ Persist(p) \/ ClosePage(p) \/ Insert(p)

PairNext == \E p \in Procs : PairStep(p)

PairSpec == PairInit /\ [][PairNext]_vars

\* ================================================================= claims
\* The frames of finished /search requests.
Answered(p) == co[p].kind = "http" /\ co[p].pc = "idle"

\* ---------------------------------------------------------------------- C1
\* C1: concurrent first callers of start() cause one browser launch and one
\* context creation in total: at no time are two browser processes (or two
\* contexts) open, and an open browser is the one the manager holds.
C1_SingleLaunch ==
  /\ Cardinality(openBrw) <= 1
  /\ Cardinality(openCtx) <= 1
  /\ openBrw \subseteq {browser}

\* ---------------------------------------------------------------------- C2
\* The list the claim describes: one record for each row with a non-empty
\* field, the first row included, in row order.
ClaimedRecords(rows) ==
  LET kept == SelectSeq(rows, RowKept)
  IN [k \in 1..Len(kept) |-> [MakeRecord(<<>>, kept[k]) EXCEPT !.id = k]]

\* The frame has just read its rows, all of them with their elements.
HasReadRows(p) ==
  /\ co[p].counted /\ co[p].pc \in {"aw_persist", "aw_close"}
  /\ co[p].rows # <<>>
  /\ \A k \in 1..Len(co[p].rows) : RowReadable(co[p].rows[k])

\* C2: the list a search returns holds exactly one record for each matched
\* row that has a non-empty field, the first matched row included, in row
\* order.
C2_RecordPerRow ==
  \A p \in Procs : HasReadRows(p) => co[p].results = ClaimedRecords(co[p].rows)

\* ---------------------------------------------------------------------- C3
\* C3: the ids of the records of one result list are 1, 2, ..., n in list
\* order.
C3_IdsContiguous ==
  \A p \in Procs : \A k \in 1..Len(co[p].results) : co[p].results[k].id = k

\* Two rows dropped around kept ones, two records numbered.
C3_Witness ==
  /\ co[1].rows = <<FullRow, BlankRow, FullRow, BlankRow, NoDurRow>>
  /\ Len(co[1].results) = 2

\* ---------------------------------------------------------------------- C4
\* C4: when no result row becomes visible within the timeout, search_tracks
\* returns the empty list and raises nothing, and the response is a 200 with
\* no results and count 0.
C4_ZeroResults ==
  \A p \in Procs :
    co[p].tmo = "wait" =>
      /\ co[p].results = <<>> /\ co[p].exc = "none"
      /\ co[p].pc \in {"aw_close0", "aw_insert", "idle"}
      /\ co[p].pc # "aw_close0" => co[p].ret = "returned" /\ co[p].count = 0
      /\ co[p].pc = "idle" => co[p].status = 200

C4_Witness ==
  \E p \in Procs : Answered(p) /\ co[p].tmo = "wait" /\ co[p].status = 200

\* ---------------------------------------------------------------------- C5
LoopPcs == {"aw_vis", "aw_scroll", "aw_click", "aw_settle"}

\* C5: one search activates "load more" at most MaxLoadMore times, never
\* after it has seen the control not visible, and the loop runs at most
\* MaxLoadMore rounds.
C5_BoundedPagination ==
  \A p \in Procs :
    /\ co[p].clicks <= MaxLoadMore
    /\ ~co[p].late
    /\ co[p].i <= MaxLoadMore
    /\ co[p].pc \in LoopPcs => co[p].i < MaxLoadMore /\ ~co[p].hidden

\* The control stayed visible: both rounds ran.
C5_Witness ==
  \E p \in Procs : co[p].pc = "aw_count" /\ co[p].clicks = MaxLoadMore

\* ---------------------------------------------------------------------- C6
\* C6: without a base URL a step of a /search request ends the request at
\* once with the configuration error (or with the empty-query error, before
\* search_tracks is called) and leaves the manager, the browser, the
\* contexts, the pages and the file as they are.
C6_ConfigErrorFirst ==
  [][\A p \in Procs :
       (~baseUrl /\ co'[p] # co[p] /\ co'[p].kind = "http") =>
         /\ co'[p].pc = "idle"
         /\ \/ co'[p].exc = "config" /\ co'[p].ret = "raised" /\ co'[p].status = 500
            \/ co'[p].exc = "empty_query" /\ co'[p].ret = "none"
         /\ ~co'[p].opened
         /\ UNCHANGED <<mgrVars, envVars>>]_vars

\* A search fails on the configuration while a session started directly
\* exists.
C6_Witness ==
  \E p \in Procs : ~baseUrl /\ Answered(p) /\ co[p].exc = "config" /\ browser # 0

\* ---------------------------------------------------------------------- C7
\* C7: a start() that returns normally leaves a browser and a context
\* present, also after an earlier start() has failed, and no search goes on
\* with a missing context.
C7_NoHalfStarted ==
  \A p \in Procs :
    /\ (co[p].kind = "start" /\ co[p].ret = "returned") => browser # 0 /\ context # 0
    /\ co[p].exc # "attribute"

\* ---------------------------------------------------------------------- C8
\* C8 as stated: after a search_tracks call that has returned a list, the
\* file exists and holds the storage state of the context.
C8_RewrittenAfterReturn ==
  \A p \in Procs :
    (Answered(p) /\ co[p].ret = "returned") =>
      context # 0 /\ blob = Some(ctxState[context])

\* C8, amended: after a search_tracks call that has returned after reading
\* the rows, and whose storage_state call has not raised, the file exists
\* and holds the storage state of the context.
C8_RewrittenAfterExtraction ==
  \A p \in Procs :
    (Answered(p) /\ co[p].ret = "returned" /\ co[p].counted /\ ~co[p].pfail) =>
      context # 0 /\ blob = Some(ctxState[context])

C8_Witness ==
  \E p \in Procs :
    /\ Answered(p) /\ co[p].ret = "returned" /\ co[p].counted /\ ~co[p].pfail
    /\ co[p].status = 200 /\ blob = Some(1)

\* ---------------------------------------------------------------------- C9
\* C9: after the application's teardown no driver, browser or context of
\* the manager is open.
C9_StoppedAtShutdown ==
  phase = "down" => openDrv = {} /\ openBrw = {} /\ openCtx = {}

\* --------------------------------------------------------------------- C10
\* C10: a timeout of any step but the wait for the first row ends the
\* request with HTTP 500 and the raised TimeoutError; the timeout of that
\* wait alone ends it with the empty list.
C10_TimeoutIs500 ==
  \A p \in Procs :
    (Answered(p) /\ co[p].tmo # "none") =>
      IF co[p].tmo = "wait"
      THEN co[p].ret = "returned" /\ co[p].status = 200 /\ co[p].results = <<>>
      ELSE co[p].ret = "raised" /\ co[p].exc = "timeout" /\ co[p].status = 500

\* The read of a row has timed out.
C10_Witness ==
  \E p \in Procs : Answered(p) /\ co[p].tmo = "row" /\ co[p].status = 500

\* --------------------------------------------------------------------- C11
\* C11: a /search request whose scrape has read the rows and returned its
\* list (a list that may hold records of rows without a duration, kept as
\* None) is answered with 200 and not failed on the validation of a record.
C11_PartialRowServed ==
  \A p \in Procs :
    (Answered(p) /\ co[p].counted /\ co[p].ret = "returned") =>
      co[p].exc # "validation" /\ co[p].status = 200

\* --------------------------------------------------------------------- C12
\* C12: when no call is in progress, no page opened by a search is still
\* open in a context that is open.
C12_PagesClosed ==
  (\A p \in Procs : co[p].pc = "idle") => \A c \in openCtx : pages[c] = 0

\* --------------------------------------------------------------------- C13
\* C13: a search that has counted its rows is not ended by a read of a row
\* whose element is missing.
C13_BestEffortReads ==
  \A p \in Procs : co[p].counted => co[p].tmo # "row" /\ co[p].exc # "timeout"

\* --------------------------------------------------------------------- C14
\* The record has nothing in it: every text is empty and there is no
\* duration.
EmptyRecord(x) ==
  /\ x.artist = <<>> /\ x.title = <<>> /\ x.download = <<>> /\ x.stream = <<>>
  /\ x.duration = None

\* C14: no record of a result list has artist, title, download and stream
\* all empty together with an absent duration.
C14_NoEmptyRecord ==
  \A p \in Procs : \A k \in 1..Len(co[p].results) : ~EmptyRecord(co[p].results[k])

\* --------------------------------------------------------------------- C15
\* C15: the step that ends the storage_state call, failed or not, goes on
\* to page.close() with the result list as it was and nothing raised; and
\* after a failed write the next step closes the page and returns that list.
C15_PersistFailureSwallowed ==
  [][\A p \in Procs :
       /\ (co[p].pc = "aw_persist" /\ co'[p] # co[p]) =>
            /\ co'[p].pc = "aw_close" /\ co'[p].results = co[p].results
            /\ co'[p].ret = "none" /\ co'[p].exc = "none"
       /\ (co[p].pc = "aw_close" /\ co[p].pfail /\ co'[p] # co[p]) =>
            /\ pages'[co[p].page] = pages[co[p].page] - 1
            /\ co'[p].ret = "returned"
            /\ co'[p].status # 500 => co'[p].results = co[p].results]_vars

\* A request whose write failed has been answered with its two records.
C15_Witness ==
  \E p \in Procs :
    Answered(p) /\ co[p].pfail /\ co[p].status = 200 /\ Len(co[p].results) = 2

\* --------------------------------------------------------------------- C16
\* C16: stop() calls browser.close() only once the context is closed and
\* its field None; a stop() that returns leaves context, browser and driver
\* None, whichever of them it found; and a stop() that finds all three None
\* returns at once, closes nothing and changes nothing.
C16_StopIdempotentOrdered ==
  [][\A p \in Procs :
       /\ (co'[p].pc = "aw_sbrw" /\ co[p].pc # "aw_sbrw") =>
            context' = 0 /\ openCtx' = {}
       /\ (co'[p].kind = "stop" /\ co'[p].pc = "idle" /\ co[p].pc # "idle") =>
            /\ co'[p].ret = "returned"
            /\ context' = 0 /\ browser' = 0 /\ playwright' = 0
       /\ (co[p].pc = "idle" /\ co'[p].kind = "stop" /\ ops' # ops
             /\ context = 0 /\ browser = 0 /\ playwright = 0) =>
            /\ co'[p].pc = "idle" /\ co'[p].ret = "returned" /\ co'[p].closes = 0
            /\ UNCHANGED <<mgrVars, envVars>>]_vars

\* A session was started and stopped, and a further stop() has returned
\* without a close.
C16_Witness ==
  \E p \in Procs :
    /\ co[p].kind = "stop" /\ co[p].pc = "idle" /\ co[p].ret = "returned"
    /\ co[p].closes = 0
    /\ nextId >= 1 /\ openDrv = {}

\* --------------------------------------------------------------------- C17
\* C17: while the manager holds a browser and a context, a call of start(),
\* direct or from a search that has a base URL, returns at once: it takes
\* no serial, starts, launches and creates nothing and leaves the handles
\* as they are, and the search goes on to open its page in the context
\* held.
C17_StartIdempotent ==
  [][\A p \in Procs :
       (/\ co[p].pc = "idle" /\ ops' # ops
        /\ browser # 0 /\ context # 0
        /\ \/ co'[p].kind = "start"
           \/ co'[p].kind = "http" /\ co'[p].exc \notin {"empty_query", "config"}) =>
         /\ UNCHANGED <<mgrVars, envVars>>
         /\ co'[p].id = 0
         /\ IF co'[p].kind = "start"
            THEN co'[p].pc = "idle" /\ co'[p].ret = "returned"
            ELSE co'[p].pc = "aw_page" /\ co'[p].page = context]_vars

\* A second search is about to open its page in the context the first
\* one created, without having gone through a launch.
C17_Witness ==
  \E p \in Procs :
    /\ co[p].kind = "http" /\ co[p].pc = "aw_page" /\ co[p].id = 0
    /\ co[p].page = context /\ context = 1 /\ nextId = 1
    /\ docs # {}

\* --------------------------------------------------------------------- C18
\* C18: when start() comes to create a context it passes the file as the
\* storage state exactly if the file exists at that moment, and the context
\* created holds the state in the file if the file was passed and the
\* fresh state otherwise.
C18_InitFromBlob ==
  [][\A p \in Procs :
       /\ (co[p].pc = "aw_launch" /\ co'[p].pc = "aw_ctx") =>
            (co'[p].useBlob <=> (blob # None))
       /\ (co[p].pc = "aw_ctx" /\ context' # context) =>
            /\ co[p].useBlob => blob # None
            /\ ctxState'[context'] = IF co[p].useBlob THEN blob[1] ELSE 0]_vars

\* A search has stored its record, the session was stopped, and the second
\* session holds the cookies that are in the file.
C18_Witness ==
  /\ context = 2 /\ openCtx = {2} /\ ctxState[2] = 1 /\ blob = Some(1)
  /\ \E d \in docs : d.count >= 1

\* --------------------------------------------------------------------- C19
\* The searches in progress whose page is open in context c.
PageHolders(c) ==
  {p \in Procs : co[p].pc # "idle" /\ co[p].opened /\ ~co[p].closed /\ co[p].page = c}

\* C19: a search's list holds, at every moment, the records of the rows of
\* its own page it has read so far, numbered from 1; and every search in
\* progress that has opened a page still has it: the shared context is open
\* and holds at least one open page for each such search.
C19_SearchesIsolated ==
  /\ \A p \in Procs :
       /\ co[p].pc = "aw_row" =>
            co[p].results =
              ExtractFrom(SubSeq(co[p].rows, 1, co[p].idx), FirstIdx, <<>>).results
       /\ (co[p].pc \in {"aw_persist", "aw_close"} /\ co[p].rows # <<>>) =>
            co[p].results = ExtractAll(co[p].rows).results
       /\ \A k \in 1..Len(co[p].results) : co[p].results[k].id = k
       /\ (co[p].pc # "idle" /\ co[p].opened /\ ~co[p].closed) => co[p].page \in openCtx
  /\ \A c \in openCtx : pages[c] >= Cardinality(PageHolders(c))

\* The first search has been answered with its two records and has closed
\* its page while the second, on a page with other rows, is in its row loop
\* with one record.
C19_Witness ==
  /\ Answered(1) /\ co[1].status = 200 /\ Len(co[1].results) = 2
  /\ co[2].pc = "aw_row" /\ co[2].idx = 2
  /\ co[2].rows = <<BlankRow, NoDurRow, FullRow>>
  /\ Len(co[2].results) = 1
  /\ pages[1] = 1

\* --------------------------------------------------------------------- C20
\* C20: a /search request that ends with the scraper's exception leaves the
\* documents as they are; a /search request answered with 200 while the
\* collection is available has added one document; and the documents change
\* only by a delete request that removes some of them, or by the insert of
\* a request whose scrape has returned, which adds one document with a new
\* id and the number of the request's results as its count and leaves the
\* others as they are.
C20_DocumentsImmutable ==
  [][/\ \A p \in Procs :
          /\ (/\ co'[p].kind = "http" /\ co'[p].ret = "raised"
              /\ (co[p].pc # "idle" \/ ops' # ops)) => docs' = docs
          /\ (/\ co[p].kind = "http" /\ co[p].pc # "idle"
              /\ co'[p].pc = "idle" /\ co'[p].status = 200 /\ collection) =>
               Cardinality(docs') = Cardinality(docs) + 1
     /\ docs' # docs =>
          \/ /\ docs' \subseteq docs
             /\ \E p \in Procs : co'[p].kind \in {"delete_all", "delete_by_id"}
          \/ \E p \in Procs :
               /\ co[p].pc = "aw_insert" /\ co[p].ret = "returned"
               /\ co'[p].status = 200
               /\ \A d \in docs : d.id # nextDoc + 1
               /\ docs' = docs \cup {[id |-> nextDoc + 1,
                                      count |-> Len(co[p].results)]}]_vars

\* Two searches have stored their documents, the first was deleted by its
\* id, and the second is there as it was stored.
C20_Witness ==
  /\ docs = {[id |-> 2, count |-> 1]} /\ nextDoc = 2
  /\ co[1].kind = "delete_by_id" /\ co[1].status = 200

====
